---- MODULE Spec2Model ----
(***************************************************************************)
(* Model of the numerical core of the EF2 notebook (two-asset efficient    *)
(* frontier): the weight grid, p_returns, p_var and max_sharpe.            *)
(*                                                                         *)
(* Numbers.  The notebook computes in floating point; the model computes   *)
(* the same expressions in exact rational arithmetic, every quantity kept  *)
(* as an integer numerator over a fixed denominator:                       *)
(*   expected returns, r_f   numerator over RetScale                      *)
(*   standard deviations     numerator over StdScale                      *)
(*   rho                     numerator over RhoScale                      *)
(*   weights                 numerator over den (the linspace divisor)     *)
(*   rets[i]                 numerator over RetScale*den                   *)
(*   var (code, line 118)    numerator over StdScale^4 * den^2 * RhoScale  *)
(* A volatility is var**0.5: it is kept as the surd of its variance        *)
(* numerator, or as nan when the variance is negative (numpy float64).     *)
(* A Sharpe ratio is a quotient numerator/surd, or inf, -inf, nan.         *)
(*                                                                         *)
(* Arrays.  weights is the sequence of the rows of the numpy array; ndim   *)
(* is the number of its axes: np.array of a non-empty list of pairs has    *)
(* two, np.array([]) (the grid line 93 builds for n_points = 0) has one.   *)
(*                                                                         *)
(* Exceptions.  raised[op] is the exception the latest run of op ended     *)
(* with, "none" when it returned; called holds the operations that have    *)
(* returned a value, recalled those that have returned more than once.     *)
(***************************************************************************)
EXTENDS Integers, Sequences, FiniteSets, TLC

\* ---------------------------------------------------------------- units
RetScale == 100
StdScale == 100
RhoScale == 20

\* ---------------------------------------------------------------- bounds
MaxN == 4

\* ---------------------------------------------------------------- inputs
RetSet == {-5, 7, 15}
StdSet == {-10, 0, 10, 18}
RhoSet == {-30, -20, -6, 20, 30}
RfSet  == {3, 7}

\* the values the notebook itself assigns (cell 2 and the recorded call)
NB_r_A == 15
NB_std_A == 18
NB_r_B == 7
NB_std_B == 10
NB_rho_AB == -6
NB_n_points == 25
NB_r_f == 3

VARIABLES n_points, r_A, std_A, r_B, std_B, rho_AB, r_f,
          weights, den, ndim,
          rets, vol, called, recalled, raised,
          pc, i, ms_rets, ms_vol, max_weights, max_sharpe_ratio, max_sharpe,
          result

inputs == <<n_points, r_A, std_A, r_B, std_B, rho_AB, r_f, weights, den, ndim>>
locals == <<i, ms_rets, ms_vol, max_weights, max_sharpe_ratio, max_sharpe>>
vars == <<n_points, r_A, std_A, r_B, std_B, rho_AB, r_f, weights, den, ndim,
          rets, vol, called, recalled, raised,
          pc, i, ms_rets, ms_vol, max_weights, max_sharpe_ratio, max_sharpe,
          result>>

\* ---------------------------------------------------------------- values
NaN == [k |-> "nan"]
Surd(v) == [k |-> "surd", v |-> v]
Fin(n, v) == [k |-> "fin", n |-> n, v |-> v]
PosInf == [k |-> "inf"]
NegInf == [k |-> "ninf"]
\* the int 0 that max_weights and max_sharpe_ratio start from
Int0 == <<0>>
Ratio0 == Fin(0, 1)
Unbound == [k |-> "unbound"]
None == [k |-> "none"]

\* x ** 0.5 on a numpy float64: nan for a negative base
Pow05(x) == IF x < 0 THEN NaN ELSE Surd(x)

\* numerator / volatility, elementwise numpy division
Divide(n, s) ==
    IF s.k = "nan" THEN NaN
    ELSE IF s.v = 0 THEN (IF n > 0 THEN PosInf ELSE IF n < 0 THEN NegInf ELSE NaN)
    ELSE Fin(n, s.v)

\* a/b > c/d for a, c >= 0 and b, d > 0, without forming the cross products
RECURSIVE FracGT(_, _, _, _)
FracGT(a, b, c, d) ==
    LET qa == a \div b
        qc == c \div d
        ra == a % b
        rc == c % d
    IN  IF qa # qc THEN qa > qc
        ELSE IF ra = 0 THEN FALSE
        ELSE IF rc = 0 THEN TRUE
        ELSE FracGT(d, rc, b, ra)

\* x > y on two finite quotients n/sqrt(v), v > 0
FinGT(x, y) ==
    IF x.n >= 0 /\ y.n >= 0 THEN FracGT(x.n * x.n, x.v, y.n * y.n, y.v)
    ELSE IF x.n >= 0 THEN TRUE
    ELSE IF y.n >= 0 THEN FALSE
    ELSE FracGT(y.n * y.n, y.v, x.n * x.n, x.v)

\* x > y as numpy evaluates it (any comparison with nan is False)
SharpeGT(x, y) ==
    IF x.k = "nan" \/ y.k = "nan" THEN FALSE
    ELSE IF x.k = "inf" THEN y.k # "inf"
    ELSE IF x.k = "ninf" THEN FALSE
    ELSE IF y.k = "inf" THEN FALSE
    ELSE IF y.k = "ninf" THEN TRUE
    ELSE FinGT(x, y)

\* x == 0
IsZero(x) == x.k = "fin" /\ x.n = 0

\* ---------------------------------------------------------------- grid
\* np.linspace(..., endpoint=False): the step is (stop - start)/num
Linspace_NoEndpoint(start, stop, num) ==
    LET div == IF num > 1 THEN num ELSE 1
    IN  [div |-> div,
         y |-> [j \in 1..num |-> start * div + (j - 1) * (stop - start)]]

\* np.linspace(start, stop, num): num samples, step (stop - start)/div with
\* div = num - 1; a single sample is start itself.  y holds numerators over div.
Linspace(start, stop, num) ==
    LET div == IF num > 1 THEN num - 1 ELSE 1
    IN  [div |-> div,
         y |-> [j \in 1..num |-> start * div + (j - 1) * (stop - start)]]

\* [[w, 1-w] for w in np.linspace(0, 1, n)]
WeightGrid(n) ==
    LET ls == Linspace(0, 1, n)
    IN  [j \in 1..n |-> <<ls.y[j], 1 * ls.div - ls.y[j]>>]

\* ---------------------------------------------------------------- p_returns
\* weights @ np.array([[r_B], [r_A]]): the two returns in the wrong rows
p_returns_Swapped(w, rA, rB) ==
    LET col == <<rB, rA>>
    IN  [j \in 1..Len(w) |-> w[j][1] * col[1] + w[j][2] * col[2]]

\* both returns weighted by the first column of the grid
p_returns_FirstColumn(w, rA, rB) ==
    LET col == <<rA, rB>>
    IN  [j \in 1..Len(w) |-> w[j][1] * col[1] + w[j][1] * col[2]]

\* weights @ np.array([[r_A], [r_B]])
p_returns(w, rA, rB) ==
    LET col == <<rA, rB>>
    IN  [j \in 1..Len(w) |-> w[j][1] * col[1] + w[j][2] * col[2]]

\* ---------------------------------------------------------------- p_var
\* the cross term subtracted instead of added
p_var_NegCross(w, sA, sB, rho) ==
    LET var_A == sA * sA
        var_B == sB * sB
        var(e) == (var_A * var_A) * (e[1] * e[1]) * RhoScale
                  + (var_B * var_B) * (e[2] * e[2]) * RhoScale
                  - 2 * e[1] * e[2] * var_A * var_B * rho
    IN  [j \in 1..Len(w) |-> Pow05(var(w[j]))]

\* the cross term with the factor 4 instead of 2
p_var_DoubleCross(w, sA, sB, rho) ==
    LET var_A == sA * sA
        var_B == sB * sB
        var(e) == (var_A * var_A) * (e[1] * e[1]) * RhoScale
                  + (var_B * var_B) * (e[2] * e[2]) * RhoScale
                  + 4 * e[1] * e[2] * var_A * var_B * rho
    IN  [j \in 1..Len(w) |-> Pow05(var(w[j]))]

\* line 118 of the notebook
p_var(w, sA, sB, rho) ==
    LET var_A == sA * sA
        var_B == sB * sB
        var(e) == (var_A * var_A) * (e[1] * e[1]) * RhoScale
                  + (var_B * var_B) * (e[2] * e[2]) * RhoScale
                  + 2 * e[1] * e[2] * var_A * var_B * rho
    IN  [j \in 1..Len(w) |-> Pow05(var(w[j]))]

\* ---------------------------------------------------------------- shapes
Operations == {"weights", "p_returns", "p_var", "max_sharpe"}

\* the size of the last axis of the weights array
CoreDim == IF ndim = 1 THEN Len(weights) ELSE 2

\* weights @ np.array([[r_A], [r_B]]) raises ValueError when the last axis of
\* weights does not have the two entries the column has
MatmulRaises == CoreDim # 2

\* ---------------------------------------------------------------- Init
TypeInit ==
    /\ weights = WeightGrid(n_points)
    /\ den = Linspace(0, 1, n_points).div
    /\ rets = <<>>
    /\ vol = <<>>
    /\ called = {}
    /\ recalled = {}
    /\ raised = [op \in Operations |-> "none"]
    /\ pc = "idle"
    /\ i = 0
    /\ ms_rets = <<>>
    /\ ms_vol = <<>>
    /\ max_weights = Int0
    /\ max_sharpe_ratio = Ratio0
    /\ max_sharpe = Unbound
    /\ result = None

Init ==
    /\ \/ /\ n_points \in 0..MaxN
          \* an empty grid is the 1-D array of line 93 or an empty n x 2 array
          /\ ndim \in (IF n_points = 0 THEN {1, 2} ELSE {2})
          /\ r_A \in RetSet
          /\ r_B \in RetSet
          /\ std_A \in StdSet
          /\ std_B \in StdSet
          /\ rho_AB \in RhoSet
          /\ r_f \in RfSet
       \/ /\ n_points = NB_n_points
          /\ ndim = 2
          /\ r_A = NB_r_A
          /\ r_B = NB_r_B
          /\ std_A = NB_std_A
          /\ std_B = NB_std_B
          /\ rho_AB = NB_rho_AB
          /\ r_f = NB_r_f
    /\ TypeInit

\* ---------------------------------------------------------------- calls
\* p_returns scaling the caller's array in place (weights *= ...) on the way
CallPReturns_InPlace ==
    /\ pc = "idle"
    /\ ~MatmulRaises
    /\ rets' = p_returns(weights, r_A, r_B)
    /\ weights' = [j \in 1..Len(weights) |-> <<weights[j][1] * r_A, weights[j][2] * r_B>>]
    /\ called' = called \cup {"p_returns"}
    /\ recalled' = recalled \cup ({"p_returns"} \cap called)
    /\ raised' = [raised EXCEPT !["p_returns"] = "none"]
    /\ UNCHANGED <<n_points, r_A, std_A, r_B, std_B, rho_AB, r_f, den, ndim>>
    /\ UNCHANGED <<vol, pc, locals, result>>

\* rets = p_returns(weights=weights, r_A=r_A, r_B=r_B)
CallPReturns ==
    /\ pc = "idle"
    /\ IF MatmulRaises
       THEN /\ raised' = [raised EXCEPT !["p_returns"] = "ValueError"]
            /\ UNCHANGED <<rets, called, recalled>>
       ELSE /\ rets' = p_returns(weights, r_A, r_B)
            /\ called' = called \cup {"p_returns"}
            /\ recalled' = recalled \cup ({"p_returns"} \cap called)
            /\ raised' = [raised EXCEPT !["p_returns"] = "none"]
    /\ UNCHANGED <<inputs, vol, pc, locals, result>>

\* p_var with its list out shared between calls (def p_var(..., out=[]))
CallPVar_SharedOut ==
    /\ pc = "idle"
    /\ vol' = vol \o p_var(weights, std_A, std_B, rho_AB)
    /\ called' = called \cup {"p_var"}
    /\ recalled' = recalled \cup ({"p_var"} \cap called)
    /\ raised' = [raised EXCEPT !["p_var"] = "none"]
    /\ UNCHANGED <<inputs, rets, pc, locals, result>>

\* vol = p_var(weights=weights, std_A=std_A, std_B=std_B, rho_AB=rho_AB)
CallPVar ==
    /\ pc = "idle"
    /\ vol' = p_var(weights, std_A, std_B, rho_AB)
    /\ called' = called \cup {"p_var"}
    /\ recalled' = recalled \cup ({"p_var"} \cap called)
    /\ raised' = [raised EXCEPT !["p_var"] = "none"]
    /\ UNCHANGED <<inputs, rets, pc, locals, result>>

\* max_sharpe(r_f, weights, A, B, rho_AB): entry, up to the loop
MaxSharpeCall ==
    /\ pc = "idle"
    /\ IF MatmulRaises
       THEN /\ raised' = [raised EXCEPT !["max_sharpe"] = "ValueError"]
            /\ UNCHANGED <<pc, locals>>
       ELSE /\ ms_rets' = p_returns(weights, r_A, r_B)
            /\ ms_vol' = p_var(weights, std_A, std_B, rho_AB)
            /\ max_weights' = Int0
            /\ max_sharpe_ratio' = Ratio0
            /\ max_sharpe' = Unbound
            /\ i' = 0
            /\ pc' = "loop"
            /\ UNCHANGED raised
    /\ UNCHANGED <<inputs, rets, vol, called, recalled, result>>

\* the Sharpe ratio the loop computes at 0-based index j
SharpeAt(j) == Divide(ms_rets[j + 1] - r_f * den, ms_vol[j + 1])

\* the loop body with the improvement branch assigning max_sharpe_ratio
MaxSharpeIter_UpdatesRatio ==
    /\ pc = "loop"
    /\ i < Len(weights)
    /\ LET e == weights[i + 1]
           sharpe == SharpeAt(i)
           mw1 == IF max_weights = Int0 THEN e ELSE max_weights
           msr1 == IF IsZero(max_sharpe_ratio) THEN sharpe ELSE max_sharpe_ratio
       IN  IF SharpeGT(sharpe, msr1)
           THEN /\ max_sharpe_ratio' = sharpe
                /\ max_weights' = e
           ELSE /\ max_sharpe_ratio' = msr1
                /\ max_weights' = mw1
    /\ max_sharpe' = max_sharpe
    /\ i' = i + 1
    /\ UNCHANGED <<inputs, rets, vol, called, recalled, raised, pc, ms_rets, ms_vol, result>>

\* one iteration of: for i, e in enumerate(weights)
MaxSharpeIter ==
    /\ pc = "loop"
    /\ i < Len(weights)
    /\ LET e == weights[i + 1]
           sharpe == SharpeAt(i)
           mw1 == IF max_weights = Int0 THEN e ELSE max_weights
           msr1 == IF IsZero(max_sharpe_ratio) THEN sharpe ELSE max_sharpe_ratio
       IN  /\ max_sharpe_ratio' = msr1
           /\ IF SharpeGT(sharpe, msr1)
              THEN /\ max_sharpe' = sharpe
                   /\ max_weights' = e
              ELSE /\ max_sharpe' = max_sharpe
                   /\ max_weights' = mw1
    /\ i' = i + 1
    /\ UNCHANGED <<inputs, rets, vol, called, recalled, raised, pc, ms_rets, ms_vol, result>>

\* return max_weights, max_sharpe_ratio
MaxSharpeReturn ==
    /\ pc = "loop"
    /\ i = Len(weights)
    /\ result' = [weights |-> max_weights, ratio |-> max_sharpe_ratio]
    /\ called' = called \cup {"max_sharpe"}
    /\ recalled' = recalled \cup ({"max_sharpe"} \cap called)
    /\ raised' = [raised EXCEPT !["max_sharpe"] = "none"]
    /\ pc' = "idle"
    /\ UNCHANGED <<inputs, rets, vol, locals>>

Next ==
    \/ CallPReturns
    \/ CallPVar
    \/ MaxSharpeCall
    \/ MaxSharpeIter
    \/ MaxSharpeReturn

Spec == Init /\ [][Next]_vars

\* ================================================================ claims
\* helpers of the statements below
Done == pc = "idle" /\ result # None
Indices == 0..(Len(weights) - 1)
NonZeroVol == \A j \in Indices : ms_vol[j + 1].k = "surd" /\ ms_vol[j + 1].v > 0
SharpeEq(x, y) == x.k = y.k /\ (x.k = "fin" => ~FinGT(x, y) /\ ~FinGT(y, x))
IsMaximal(k) == \A j \in Indices : ~SharpeGT(SharpeAt(j), SharpeAt(k))
MinOf(S) == CHOOSE m \in S : \A x \in S : m <= x
WellFormed ==
    /\ std_A >= 0
    /\ std_B >= 0
    /\ rho_AB >= -RhoScale
    /\ rho_AB <= RhoScale
IsNotebook ==
    /\ n_points = NB_n_points
    /\ r_A = NB_r_A
    /\ r_B = NB_r_B
    /\ std_A = NB_std_A
    /\ std_B = NB_std_B
    /\ rho_AB = NB_rho_AB
    /\ r_f = NB_r_f

\* C1: for a non-empty grid with non-zero volatility at every grid point, the
\* pair max_sharpe returns is the pair of a grid index whose Sharpe ratio is
\* maximal: no grid index has a strictly larger Sharpe ratio.  Stated on the
\* well-formed inputs (std >= 0, rho in [-1, 1]).
C1_ReturnsArgmax ==
    (Done /\ WellFormed /\ Len(weights) >= 1 /\ NonZeroVol)
        => \E k \in Indices : result.weights = weights[k + 1] /\ IsMaximal(k)

\* C2: for a non-empty grid, the ratio max_sharpe returns is the Sharpe ratio
\* of the grid index whose weight pair it returns.  Stated on the well-formed
\* inputs with non-zero volatility at every grid point.
C2_RatioOfReturnedPair ==
    (Done /\ WellFormed /\ Len(weights) >= 1 /\ NonZeroVol)
        => \E k \in Indices : /\ result.weights = weights[k + 1]
                              /\ SharpeEq(result.ratio, SharpeAt(k))

\* C3: when two or more grid indices share the maximal Sharpe ratio, the pair
\* returned is the pair of the earliest of them.  Stated on the well-formed
\* inputs with non-zero volatility at every grid point.
C3_TieFirstOccurrence ==
    (Done /\ WellFormed /\ Len(weights) >= 1 /\ NonZeroVol)
        => LET M == {k \in Indices : IsMaximal(k)}
           IN  Cardinality(M) >= 2 => result.weights = weights[MinOf(M) + 1]

\* Sharpe^2 = (n^2 / v) * SharpeSqUnit for a finite quotient Fin(n, v)
SharpeSqUnit == (StdScale * StdScale * StdScale * StdScale * RhoScale)
                    \div (RetScale * RetScale)
\* the finite quotient x is the positive number whose square is q
SharpeIs(x, q) ==
    /\ x.k = "fin"
    /\ x.n > 0
    /\ ~FracGT(x.n * x.n, x.v, q, SharpeSqUnit)
    /\ ~FracGT(q, SharpeSqUnit, x.n * x.n, x.v)

TextbookVar(e) ==
    std_A * std_A * e[1] * e[1] * RhoScale
    + std_B * std_B * e[2] * e[2] * RhoScale
    + 2 * e[1] * e[2] * std_A * std_B * rho_AB
\* a code variance numerator v (over StdScale^4 ...) equals t (over StdScale^2 ...)
SameVariance(v, t) ==
    /\ v % (StdScale * StdScale) = 0
    /\ v \div (StdScale * StdScale) = t

\* C5: the volatility p_var returns at index i, squared, is
\* std_A^2 w_A^2 + std_B^2 w_B^2 + 2 w_A w_B std_A std_B rho for the pair at
\* index i, and the output has one entry per grid point.  Stated on the
\* well-formed inputs and the grids of two or more points.
C5_TextbookVariance ==
    ("p_var" \in called /\ WellFormed /\ n_points >= 2)
        => /\ Len(vol) = Len(weights)
           /\ \A j \in 1..Len(weights) :
                  /\ vol[j].k = "surd"
                  /\ SameVariance(vol[j].v, TextbookVar(weights[j]))

\* the volatility x equals the standard deviation s >= 0
VolIsStd(x, s) ==
    /\ x.k = "surd"
    /\ SameVariance(x.v, s * s * den * den * RhoScale)

\* C6: for std_A, std_B >= 0 and rho in [-1, 1], the volatility at the grid
\* point with w_A = 1 equals std_A and at the point with w_A = 0 equals std_B
\* (grids of two or more points).
C6_Boundary ==
    ("p_var" \in called /\ WellFormed /\ n_points >= 2)
        => \A j \in 1..Len(weights) :
               /\ weights[j][1] = den => VolIsStd(vol[j], std_A)
               /\ weights[j][1] = 0 => VolIsStd(vol[j], std_B)

\* C7: for N >= 2 the grid has exactly N pairs, pair i is (i/(N-1), 1 - i/(N-1)),
\* the first pair is (0, 1) and the last (1, 0), w_A strictly increases with the
\* index, both components lie in [0, 1] and every pair sums to 1.
C7_WeightGrid ==
    n_points >= 2
        => /\ Len(weights) = n_points
           /\ den = n_points - 1
           /\ \A j \in 1..n_points : weights[j] = <<j - 1, den - (j - 1)>>
           /\ weights[1] = <<0, den>>
           /\ weights[n_points] = <<den, 0>>
           /\ \A j \in 1..(n_points - 1) : weights[j][1] < weights[j + 1][1]
           /\ \A j \in 1..n_points :
                  /\ weights[j][1] \in 0..den
                  /\ weights[j][2] \in 0..den
                  /\ weights[j][1] + weights[j][2] = den
C7_Witness == n_points >= 3 /\ Len(weights) >= 3 /\ weights[2][1] > 0

\* C8: p_returns yields exactly one value per grid point and the value at
\* index i is w_A * r_A + w_B * r_B for the pair at index i.
C8_Returns ==
    "p_returns" \in called
        => /\ Len(rets) = Len(weights)
           /\ DOMAIN rets = DOMAIN weights
           /\ \A j \in 1..Len(weights) :
                  rets[j] = weights[j][1] * r_A + weights[j][2] * r_B
C8_Witness == "p_returns" \in called /\ Len(weights) >= 3 /\ r_A # r_B

Min2(a, b) == IF a <= b THEN a ELSE b
Max2(a, b) == IF a >= b THEN a ELSE b

\* C9: the returns output has the length of the grid and each value lies
\* between min(r_A, r_B) and max(r_A, r_B) inclusive.
C9_ReturnsBounded ==
    "p_returns" \in called
        => /\ Len(rets) = Len(weights)
           /\ \A j \in 1..Len(rets) :
                  /\ Min2(r_A, r_B) * den <= rets[j]
                  /\ rets[j] <= Max2(r_A, r_B) * den
C9_Witness ==
    /\ "p_returns" \in called
    /\ r_A # r_B
    /\ \E j \in 1..Len(rets) :
           Min2(r_A, r_B) * den < rets[j] /\ rets[j] < Max2(r_A, r_B) * den

\* x <= y on two volatilities
VolLE(x, y) == x.k = "surd" /\ y.k = "surd" /\ x.v <= y.v

\* C10: for std_A, std_B >= 0 and rho1 <= rho2 in [-1, 1], the volatility at any
\* interior grid point (0 < w_A < 1) computed with rho1 is not greater than the
\* one computed with rho2.
C10_MonotoneInRho ==
    ("p_var" \in called /\ WellFormed)
        => \A rho2 \in rho_AB..RhoScale :
               \A j \in 1..Len(weights) :
                   (0 < weights[j][1] /\ weights[j][1] < den)
                       => VolLE(vol[j], p_var(weights, std_A, std_B, rho2)[j])
C10_Witness ==
    /\ "p_var" \in called
    /\ WellFormed
    /\ std_A > 0
    /\ std_B > 0
    /\ rho_AB < RhoScale
    /\ \E j \in 1..Len(weights) :
           /\ 0 < weights[j][1]
           /\ weights[j][1] < den
           /\ vol[j].v < p_var(weights, std_A, std_B, RhoScale)[j].v

\* C11: building the weight grid with N = 1 or N = 0 fails with an error; no
\* one-point or empty grid is produced.
C11_SmallGridRejected ==
    n_points < 2 => raised["weights"] # "none"

\* C12: with rho = 1.5 the volatility calculator never returns a volatility
\* sequence (the call ends in a failure).  Stated with std_A, std_B >= 0.
C12_RhoOutOfRangeRejected ==
    (2 * rho_AB = 3 * RhoScale /\ std_A >= 0 /\ std_B >= 0)
        => "p_var" \notin called

\* C13: no sequence the volatility calculator returns holds a nan: a negative
\* variance at some grid point fails the whole call.  Stated with
\* std_A, std_B >= 0.
C13_NoNaNVolatility ==
    ("p_var" \in called /\ std_A >= 0 /\ std_B >= 0)
        => \A j \in 1..Len(vol) : vol[j].k # "nan"

\* a division by a volatility that is exactly zero
ZeroVolAt(j) == ms_vol[j + 1].k = "surd" /\ ms_vol[j + 1].v = 0

\* C14: on well-formed inputs and a grid of two or more points max_sharpe
\* performs no division by a zero volatility and the ratio it returns is never
\* infinity or nan.
C14_ZeroVolGuard ==
    (WellFormed /\ n_points >= 2)
        => /\ (pc = "loop" /\ i < Len(weights)) => ~ZeroVolAt(i)
           /\ (Done /\ Len(weights) >= 1) => result.ratio.k = "fin"

\* C15: max_sharpe on an empty grid does not return a result (stated on the
\* well-formed asset parameters).
C15_EmptyGridRejected ==
    (Len(weights) = 0 /\ WellFormed) => result = None

\* C16: with a negative standard deviation neither the volatility calculator
\* nor max_sharpe returns a value.
C16_NegativeStdRejected ==
    (std_A < 0 \/ std_B < 0) => ("p_var" \notin called /\ result = None)

\* C17: a later invocation of p_returns, p_var or max_sharpe with the same
\* inputs returns what the earlier one returned, whatever was called between.
C17_Deterministic ==
    [][inputs' = inputs
        => /\ "p_returns" \in called => rets' = rets
           /\ "p_var" \in called => vol' = vol
           /\ (result # None /\ result' # None) => result' = result]_vars
C17_Witness ==
    /\ recalled = {"p_returns", "p_var", "max_sharpe"}
    /\ Len(weights) >= 3
    /\ pc = "idle"

\* C18: in the scan of max_sharpe the best pair and the best ratio are seeded
\* at index 0, and the seeding step (max_sharpe_ratio == 0) fires at no later
\* index.  Stated on the well-formed inputs with non-zero volatility.
C18_SeededOnce ==
    (pc = "loop" /\ WellFormed /\ NonZeroVol /\ i >= 1)
        => /\ i = 1 => /\ max_weights = weights[1]
                       /\ max_sharpe_ratio = SharpeAt(0)
           /\ i < Len(weights) => ~IsZero(max_sharpe_ratio)

\* C19: for std_A, std_B >= 0 and rho in [-1, 1] the variance p_var computes is
\* non-negative at every grid point (its square root is never nan).
C19_VarianceNonNegative ==
    ("p_var" \in called /\ WellFormed)
        => \A j \in 1..Len(weights) : vol[j].k = "surd" /\ vol[j].v >= 0
C19_Witness ==
    /\ "p_var" \in called
    /\ std_A > 0
    /\ std_B > 0
    /\ rho_AB = -RhoScale
    /\ \E j \in 1..Len(weights) :
           /\ 0 < weights[j][1]
           /\ weights[j][1] < den
           /\ vol[j] = Surd(0)

\* C20: no call changes its inputs: the grid keeps its length, order and
\* values, and the asset parameters, rho and r_f keep their values.
C20_InputsUnchanged ==
    [][/\ weights' = weights
       /\ Len(weights') = Len(weights)
       /\ <<r_A, std_A, r_B, std_B, rho_AB, r_f>>' = <<r_A, std_A, r_B, std_B, rho_AB, r_f>>
       /\ inputs' = inputs]_vars
C20_Witness ==
    /\ called = {"p_returns", "p_var", "max_sharpe"}
    /\ Len(weights) >= 3
    /\ pc = "idle"

\* the grid indices whose Sharpe ratio is strictly greater than that of index 0
AboveFirst == {k \in Indices : SharpeGT(SharpeAt(k), SharpeAt(0))}
MaxOf(S) == CHOOSE m \in S : \A x \in S : m >= x

====
